---------------------------- MODULE Spec2Model ----------------------------
(***************************************************************************)
(* Model of network-test (src/src/main.rs): a sampling thread that probes  *)
(* a host `iterations` times, parses each report with parse_ping and sends *)
(* the PingResult over an mpsc channel, and the eframe application PingApp *)
(* whose update() drains the channel into ping_data, trims it and requests *)
(* the next repaint.                                                       *)
(*                                                                         *)
(* Text is a sequence of one-character strings.  An f64 is modelled by its *)
(* decimal value [neg, mant, scale] = (-1)^neg * mant / 10^scale, kept     *)
(* normalised, so that "1.50" and "1.5" denote the same number.            *)
(***************************************************************************)
EXTENDS Integers, Sequences, FiniteSets, TLC

VARIABLES
    iterations,       \* main: args[2] parsed as i32
    pc,               \* sampling thread: "loop" | "probe" | "parse" | "send" | "done" | "panicked"
    i,                \* sampling thread: loop counter
    ping_output,      \* get_ping: stdout of the probe, handed to parse_ping
    ping_value,       \* sampling thread: the PingResult about to be sent
    chan,             \* mpsc channel: PingResults sent and not yet received
    txAlive,          \* the Sender has not been dropped
    rxAlive,          \* the Receiver (owned by PingApp) has not been dropped
    uiPc,             \* PingApp::update: "idle" | "drain" | "trim" | "render" | "closed"
    ping_data,        \* PingApp.ping_data
    repaintRequested, \* egui: a repaint is pending
    procAlive,        \* the process has not exited
    shape,            \* history: how ping_output was put together
    sent,             \* history: every PingResult sent successfully, in order
    drained,          \* history: every PingResult received by update, in order
    evicted,          \* history: every PingResult removed from ping_data, in order
    probes,           \* history: number of probe invocations
    sendFailed,       \* history: a send has returned Err
    panicMsg,         \* history: message of the panic that ended the thread, or "none"
    tickStart         \* history: channel, buffer and sender as the running tick found them

vars == <<iterations, pc, i, ping_output, ping_value, chan, txAlive, rxAlive,
          uiPc, ping_data, repaintRequested, procAlive, shape, sent, drained,
          evicted, probes, sendFailed, panicMsg, tickStart>>

(***************************************************************************)
(* Bounds of the model.                                                    *)
(***************************************************************************)
\* Largest iteration count given on the command line.
MaxIterations == 5
\* PingApp.max_points (1000 in PingApp::new), scaled down so that the
\* buffer fills and overflows within MaxIterations sends.
max_points == 2

(***************************************************************************)
(* Text.                                                                   *)
(***************************************************************************)
\* "min/avg/max/stddev", the literal searched by parse_ping.
Marker ==
    <<"m","i","n","/","a","v","g","/","m","a","x","/","s","t","d","d","e","v">>

\* " = ", the first split pattern of parse_ping.
StatsSep == <<" ", "=", " ">>

\* "/", the second split pattern of parse_ping.
FieldSep == <<"/">>

Digits == {"0","1","2","3","4","5","6","7","8","9"}

DigitVal(c) ==
    CASE c = "0" -> 0 [] c = "1" -> 1 [] c = "2" -> 2 [] c = "3" -> 3
      [] c = "4" -> 4 [] c = "5" -> 5 [] c = "6" -> 6 [] c = "7" -> 7
      [] c = "8" -> 8 [] c = "9" -> 9

\* s has the pattern p at position k (1-based).
MatchAt(s, p, k) ==
    /\ k >= 1
    /\ k + Len(p) - 1 <= Len(s)
    /\ SubSeq(s, k, k + Len(p) - 1) = p

Matches(s, p) ==
    UNION { {k \in 1..Len(t) : MatchAt(t, p, k)} : t \in {s} }

SetMax(S) == CHOOSE k \in S : \A j \in S : j <= k
SetMin(S) == CHOOSE k \in S : \A j \in S : k <= j

\* Below, a value that is used several times is bound as the element of a
\* singleton ({e : x \in {v}} is {e} with x = v): TLC then computes it once.

\* str::find: position of the first match, 0 for None.
find(s, p) ==
    CHOOSE r \in {IF m = {} THEN 0 ELSE SetMin(m) : m \in {Matches(s, p)}} : TRUE

\* str::rfind: position of the last match, 0 for None.
rfind(s, p) ==
    CHOOSE r \in {IF m = {} THEN 0 ELSE SetMax(m) : m \in {Matches(s, p)}} : TRUE

\* str::split(p).collect(): the pieces between the non-overlapping matches
\* of p taken from the left; a text without a match is its own only piece.
RECURSIVE split(_, _)
split(s, p) ==
    CHOOSE pieces \in
        { IF k = 0
          THEN <<t>>
          ELSE <<SubSeq(t, 1, k - 1)>> \o split(SubSeq(t, k + Len(p), Len(t)), p) :
            t \in {s}, k \in {find(s, p)} } : TRUE

(***************************************************************************)
(* f64 values and str::parse::<f64>.                                       *)
(***************************************************************************)
RECURSIVE Normalise(_, _)
Normalise(mant, scale) ==
    IF mant = 0 THEN [mant |-> 0, scale |-> 0]
    ELSE IF scale > 0 /\ mant % 10 = 0 THEN Normalise(mant \div 10, scale - 1)
    ELSE [mant |-> mant, scale |-> scale]

F64(neg, mant, scale) ==
    LET n == Normalise(mant, scale)
    IN [neg |-> neg, mant |-> n.mant, scale |-> n.scale]

RECURSIVE DigitsValue(_)
DigitsValue(ds) ==
    IF ds = <<>> THEN 0
    ELSE 10 * DigitsValue(SubSeq(ds, 1, Len(ds) - 1)) + DigitVal(ds[Len(ds)])

IsDigits(s) == \A k \in 1..Len(s) : s[k] \in Digits

ParseOk(v) == [ok |-> TRUE, value |-> v]
ParseErr == [ok |-> FALSE, value |-> F64(FALSE, 0, 0)]

\* <f64 as FromStr>::from_str on the decimal forms [+-]digits[.digits],
\* [+-].digits and [+-]digits. : no trimming, no unit suffix, at least one
\* digit.  The exponent, "inf" and "nan" forms are not among the texts the
\* model enumerates and are rejected here.
Unsigned(body, neg) ==
    CHOOSE res \in
      { LET int == IF dot = 0 THEN body ELSE SubSeq(body, 1, dot - 1)
            frac == IF dot = 0 THEN <<>> ELSE SubSeq(body, dot + 1, Len(body))
        IN IF IsDigits(int) /\ IsDigits(frac) /\ Len(int) + Len(frac) > 0
           THEN ParseOk(F64(neg, DigitsValue(int \o frac), Len(frac)))
           ELSE ParseErr :
          dot \in {find(body, <<".">>)} } : TRUE

ParseF64(s) ==
    IF s # <<>> /\ s[1] \in {"+", "-"}
    THEN Unsigned(Tail(s), s[1] = "-")
    ELSE Unsigned(s, FALSE)

(***************************************************************************)
(* parse_ping.                                                             *)
(***************************************************************************)
NoValue == F64(FALSE, 0, 0)

Parsed(average) == [ok |-> TRUE, average |-> average, panic |-> "none"]
Panic(msg) == [ok |-> FALSE, average |-> NoValue, panic |-> msg]

\* stats_values[1].parse(): the field at index 1 (Rust counts from 0).
AverageField(stats_values) == stats_values[2]

\* Mutant of StatsIndex: a report without the marker is read from its start.
StatsIndexOrStart(text) ==
    CHOOSE res \in { IF k = 0 THEN 1 ELSE k : k \in {rfind(text, Marker)} } : TRUE

\* Mutant of StatsIndex: the first occurrence of the marker, not the last.
StatsIndexFirst(text) == find(text, Marker)

\* ping_output.rfind("min/avg/max/stddev")
StatsIndex(text) == rfind(text, Marker)

\* match stats_values[1].parse() { Ok(average) => ..., Err(err) => panic!(..) }
\* stats_values[1] itself panics when the Vec has a single element.
ParseAverage(stats_values) ==
    IF Len(stats_values) < 2 THEN Panic("index out of bounds")
    ELSE CHOOSE res \in
           { IF r.ok THEN Parsed(r.value)
             ELSE Panic("Error parsing average value") :
               r \in {ParseF64(AverageField(stats_values))} } : TRUE

\* stats_splitted.next() twice: the header, then the values split on "/".
ParseStats(stats_splitted) ==
    IF Len(stats_splitted) < 2 THEN Panic("Stats values not found")
    ELSE CHOOSE res \in
           { ParseAverage(stats_values) :
               stats_values \in {split(stats_splitted[2], FieldSep)} } : TRUE

parse_ping(text) ==
    CHOOSE res \in
      { IF stats_index = 0 THEN Panic("Sequence not found")
        ELSE CHOOSE r \in
               { ParseStats(stats_splitted) :
                   stats_splitted \in
                     {split(SubSeq(text, stats_index, Len(text)), StatsSep)} } : TRUE :
          stats_index \in {StatsIndex(text)} } : TRUE

(***************************************************************************)
(* Probe reports.                                                          *)
(***************************************************************************)
\* The decimal numeral "<k>.0" for a digit k.
Numeral(k) ==
    <<CASE k = 0 -> "0" [] k = 1 -> "1" [] k = 2 -> "2" [] k = 3 -> "3"
        [] k = 4 -> "4" [] k = 5 -> "5" [] k = 6 -> "6" [] k = 7 -> "7"
        [] k = 8 -> "8" [] OTHER -> "9", ".", "0">>

\* "rtt min/avg/max/stddev = 0.5/<k>.0/9.5/0.1 ms": the summary line of a
\* successful probe whose average is k milliseconds.
GoodReport(k) ==
    <<"r","t","t"," ">> \o Marker \o StatsSep \o <<"0",".","5">> \o FieldSep
      \o Numeral(k) \o FieldSep \o <<"9",".","5">> \o FieldSep
      \o <<"0",".","1">> \o <<" ","m","s">>

\* "100% loss": the report of a probe that got no reply (no summary line).
LossReport == <<"1","0","0","%"," ","l","o","s","s">>

\* What Command::output() and from_utf8 can give in iteration n (from 0):
\* a report, an io::Error or bytes that are not UTF-8.
ProbeOutcomes(n) ==
    { [kind |-> "report", text |-> GoodReport((n + 1) % 10)],
      [kind |-> "report", text |-> LossReport],
      [kind |-> "io_error", text |-> <<>>],
      [kind |-> "non_utf8", text |-> <<>>] }

(***************************************************************************)
(* PingResult and the channel.                                             *)
(***************************************************************************)
\* PingResult::new(average, Utc::now()); the clock is the probe's ordinal.
PingResult(average, now) == [average |-> average, datetime_recv |-> now]

NoResult == PingResult(NoValue, 0)

\* Mutant of LoopContinues: the loop bound off by one.
LoopContinuesInclusive(n, count) == n <= count

\* while i < iterations
LoopContinues(n, count) == n < count

\* Mutant of SendOk: a send that never reports the dropped Receiver.
SendNeverFails(receiver) == TRUE

\* tx.send(v): Ok while the Receiver lives, Err once it is dropped.
SendOk(receiver) == receiver

\* Mutant of Push: the new PingResult goes to the front.
PushFront(data, v) == <<v>> \o data

\* self.ping_data.push(ping_value)
Push(data, v) == Append(data, v)

\* Mutant of Trim: `while` in place of `if`, the front is removed until
\* max_points are left.
TrimAll(data) ==
    IF Len(data) > max_points
    THEN SubSeq(data, Len(data) - max_points + 1, Len(data))
    ELSE data

\* Mutant of Trim: pop() in place of remove(0).
TrimNewest(data) ==
    IF Len(data) > max_points THEN SubSeq(data, 1, Len(data) - 1) ELSE data

\* if self.ping_data.len() > self.max_points { self.ping_data.remove(0); }
Trim(data) == IF Len(data) > max_points THEN Tail(data) ELSE data

\* The elements Trim removes.
Removed(data) == SubSeq(data, 1, Len(data) - Len(Trim(data)))

NoShape ==
    [kind |-> "probe", pre |-> <<>>, a |-> <<>>, b |-> <<>>, c |-> <<>>,
     d |-> <<>>, suf |-> <<>>, toks |-> <<>>, why |-> "none"]

\* tickStart between two ticks; quiet tells whether the tick that ended
\* last received nothing.
NoTick(quiet) ==
    [chan |-> <<>>, data |-> <<>>, received |-> 0, tx |-> TRUE,
     running |-> FALSE, quiet |-> quiet]

(***************************************************************************)
(* main up to the point where the thread is spawned and the window opens.  *)
(***************************************************************************)
Init ==
    /\ iterations \in 0..MaxIterations
    /\ pc = "loop"
    /\ i = 0
    /\ ping_output = <<>>
    /\ ping_value = NoResult
    /\ chan = <<>>
    /\ txAlive = TRUE
    /\ rxAlive = TRUE
    /\ uiPc = "idle"
    /\ ping_data = <<>>
    /\ repaintRequested = TRUE
    /\ procAlive = TRUE
    /\ shape = NoShape
    /\ sent = <<>>
    /\ drained = <<>>
    /\ evicted = <<>>
    /\ probes = 0
    /\ sendFailed = FALSE
    /\ panicMsg = "none"
    /\ tickStart = NoTick(FALSE)

uiVars == <<uiPc, ping_data, repaintRequested, drained, evicted, tickStart>>
threadVars == <<pc, i, ping_output, ping_value, probes, sendFailed, sent,
                panicMsg>>

(***************************************************************************)
(* The sampling thread (the closure given to thread::spawn).               *)
(***************************************************************************)
\* The panic of a failed probe: unwrap of the io::Error that get_ping
\* returned, or get_ping's own panic on output that is not UTF-8.
ProbePanic(kind) ==
    IF kind = "io_error"
    THEN "called Result::unwrap() on an Err value"
    ELSE "Invalid UTF-8 sequence"

\* Mutant of ThreadPanic: a panic that takes the whole process down.
ThreadPanicAborts ==
    /\ pc' = "panicked"
    /\ txAlive' = FALSE
    /\ procAlive' = FALSE

\* A panic (panic!, or unwrap of an Err) in the spawned thread: the thread
\* unwinds, which drops tx; the process and the other thread go on.
ThreadPanic ==
    /\ pc' = "panicked"
    /\ txAlive' = FALSE
    /\ UNCHANGED procAlive

\* while i < iterations { ... }; leaving the closure drops tx.
LoopTest ==
    /\ procAlive
    /\ pc = "loop"
    /\ IF LoopContinues(i, iterations)
       THEN pc' = "probe" /\ UNCHANGED txAlive
       ELSE pc' = "done" /\ txAlive' = FALSE
    /\ UNCHANGED <<iterations, i, ping_output, ping_value, chan, rxAlive,
                   procAlive, shape, sent, probes, sendFailed, panicMsg>>
    /\ UNCHANGED uiVars

\* get_ping up to the call of parse_ping: run the probe, decode its stdout.
\* An io::Error comes back as Err and is unwrapped by the closure, invalid
\* UTF-8 panics in get_ping: either way the thread unwinds and drops tx.
Probe ==
    /\ procAlive
    /\ pc = "probe"
    /\ probes' = probes + 1
    /\ \E out \in ProbeOutcomes(i) :
         IF out.kind = "report"
         THEN /\ ping_output' = out.text
              /\ pc' = "parse"
              /\ UNCHANGED <<txAlive, procAlive, panicMsg>>
         ELSE /\ ThreadPanic
              /\ panicMsg' = ProbePanic(out.kind)
              /\ UNCHANGED ping_output
    /\ UNCHANGED <<iterations, i, ping_value, chan, rxAlive, shape, sent,
                   sendFailed>>
    /\ UNCHANGED uiVars

\* Mutant of Parse: a report that cannot be parsed is skipped and the loop
\* goes on with the next iteration.
ParseSkippingFailures ==
    /\ procAlive
    /\ pc = "parse"
    /\ LET r == parse_ping(ping_output)
       IN IF r.ok
          THEN /\ ping_value' = PingResult(r.average, probes)
               /\ pc' = "send"
               /\ UNCHANGED i
          ELSE /\ pc' = "loop"
               /\ i' = i + 1
               /\ UNCHANGED ping_value
    /\ UNCHANGED <<iterations, ping_output, chan, rxAlive, shape, sent,
                   probes, sendFailed, txAlive, procAlive, panicMsg>>
    /\ UNCHANGED uiVars

\* parse_ping(output_as_str) and the unwrap of its result.
Parse ==
    /\ procAlive
    /\ pc = "parse"
    /\ LET r == parse_ping(ping_output)
       IN IF r.ok
          THEN /\ ping_value' = PingResult(r.average, probes)
               /\ pc' = "send"
               /\ UNCHANGED <<txAlive, procAlive, panicMsg>>
          ELSE /\ ThreadPanic
               /\ panicMsg' = r.panic
               /\ UNCHANGED ping_value
    /\ UNCHANGED <<iterations, i, ping_output, chan, rxAlive, shape, sent,
                   probes, sendFailed>>
    /\ UNCHANGED uiVars

\* Mutant of Send: the thread also pushes the PingResult onto ping_data
\* itself (a buffer shared between the two sides).
SendIntoBuffer ==
    /\ procAlive
    /\ pc = "send"
    /\ IF SendOk(rxAlive)
       THEN /\ chan' = Append(chan, ping_value)
            /\ sent' = Append(sent, ping_value)
            /\ ping_data' = Append(ping_data, ping_value)
            /\ i' = i + 1
            /\ pc' = "loop"
            /\ UNCHANGED <<txAlive, sendFailed>>
       ELSE /\ pc' = "done"
            /\ txAlive' = FALSE
            /\ sendFailed' = TRUE
            /\ UNCHANGED <<chan, sent, i, ping_data>>
    /\ UNCHANGED <<iterations, ping_output, ping_value, rxAlive, procAlive,
                   shape, probes, panicMsg>>
    /\ UNCHANGED <<uiPc, repaintRequested, drained, evicted, tickStart>>

\* if tx.send(ping_value).is_err() { break; } i += 1;
Send ==
    /\ procAlive
    /\ pc = "send"
    /\ IF SendOk(rxAlive)
       THEN /\ chan' = Append(chan, ping_value)
            /\ sent' = Append(sent, ping_value)
            /\ i' = i + 1
            /\ pc' = "loop"
            /\ UNCHANGED <<txAlive, sendFailed>>
       ELSE /\ pc' = "done"
            /\ txAlive' = FALSE
            /\ sendFailed' = TRUE
            /\ UNCHANGED <<chan, sent, i>>
    /\ UNCHANGED <<iterations, ping_output, ping_value, rxAlive, procAlive,
                   shape, probes, panicMsg>>
    /\ UNCHANGED uiVars

(***************************************************************************)
(* PingApp::update, one redraw tick, step by step.                         *)
(***************************************************************************)
\* Mutant of TryRecv: a channel whose Sender is gone counts as empty, the
\* PingResults still queued are never received.
TryRecvUnlessDisconnected ==
    IF chan # <<>> /\ txAlive
    THEN /\ ping_data' = Push(ping_data, Head(chan))
         /\ drained' = Append(drained, Head(chan))
         /\ chan' = Tail(chan)
         /\ uiPc' = "drain"
    ELSE /\ uiPc' = "trim"
         /\ UNCHANGED <<ping_data, drained, chan>>

\* Mutant of TryRecv: `if let` in place of `while let`, one PingResult a tick.
TryRecvOnce ==
    /\ uiPc' = "trim"
    /\ IF chan # <<>>
       THEN /\ ping_data' = Append(ping_data, Head(chan))
            /\ drained' = Append(drained, Head(chan))
            /\ chan' = Tail(chan)
       ELSE UNCHANGED <<ping_data, drained, chan>>

\* One turn of `while let Ok(ping_value) = self.ping_receiver.try_recv()`:
\* try_recv gives the oldest queued PingResult, whether or not the Sender
\* still lives, and Err(Empty) or Err(Disconnected) on an empty channel.
\* It never waits.
TryRecv ==
    IF chan # <<>>
    THEN /\ ping_data' = Push(ping_data, Head(chan))
         /\ drained' = Append(drained, Head(chan))
         /\ chan' = Tail(chan)
         /\ uiPc' = "drain"
    ELSE /\ uiPc' = "trim"
         /\ UNCHANGED <<ping_data, drained, chan>>

\* eframe calls update for a pending repaint; update starts with its first
\* try_recv.
UpdateStart ==
    /\ procAlive
    /\ uiPc = "idle"
    /\ repaintRequested
    /\ repaintRequested' = FALSE
    /\ tickStart' = [chan |-> chan, data |-> ping_data,
                     received |-> Len(drained), tx |-> txAlive,
                     running |-> TRUE, quiet |-> FALSE]
    /\ TryRecv
    /\ UNCHANGED <<evicted, txAlive, rxAlive, procAlive, iterations, shape>>
    /\ UNCHANGED threadVars

\* The later turns of the while-let loop.
DrainNext ==
    /\ procAlive
    /\ uiPc = "drain"
    /\ TryRecv
    /\ UNCHANGED <<repaintRequested, evicted, tickStart, txAlive, rxAlive,
                   procAlive, iterations, shape>>
    /\ UNCHANGED threadVars

\* Limit the number of points.
TrimStep ==
    /\ procAlive
    /\ uiPc = "trim"
    /\ ping_data' = Trim(ping_data)
    /\ evicted' = evicted \o Removed(ping_data)
    /\ uiPc' = "render"
    /\ UNCHANGED <<repaintRequested, drained, tickStart, chan, txAlive,
                   rxAlive, procAlive, iterations, shape>>
    /\ UNCHANGED threadVars

\* Mutant of RequestRepaint: a repaint only when the tick received data.
RequestRepaintOnData == Len(drained) # tickStart.received

\* ctx.request_repaint() at the end of update.
RequestRepaint == TRUE

\* The plot of ping_data, then the request for the next repaint.
Render ==
    /\ procAlive
    /\ uiPc = "render"
    /\ repaintRequested' = RequestRepaint
    /\ tickStart' = NoTick(Len(drained) = tickStart.received)
    /\ uiPc' = "idle"
    /\ UNCHANGED <<ping_data, drained, evicted, chan, txAlive, rxAlive,
                   procAlive, iterations, shape>>
    /\ UNCHANGED threadVars

(***************************************************************************)
(* The end of the run.                                                     *)
(***************************************************************************)
\* The window is closed between two frames (or never opened): run_native
\* returns and drops the PingApp with its Receiver and its buffer; what was
\* queued on the channel is dropped with the Receiver.
CloseWindow ==
    /\ procAlive
    /\ uiPc = "idle"
    /\ uiPc' = "closed"
    /\ rxAlive' = FALSE
    /\ chan' = <<>>
    /\ ping_data' = <<>>
    /\ UNCHANGED <<repaintRequested, drained, evicted, tickStart, txAlive,
                   procAlive, iterations, shape>>
    /\ UNCHANGED threadVars

\* main returns what draw_chart_realtime returned: the process exits and
\* takes the sampling thread with it, wherever it stands.
ProcessExit ==
    /\ procAlive
    /\ uiPc = "closed"
    /\ procAlive' = FALSE
    /\ UNCHANGED <<chan, txAlive, rxAlive, iterations, shape>>
    /\ UNCHANGED uiVars
    /\ UNCHANGED threadVars

Next ==
    \/ LoopTest
    \/ Probe
    \/ Parse
    \/ Send
    \/ UpdateStart
    \/ DrainNext
    \/ TrimStep
    \/ Render
    \/ CloseWindow
    \/ ProcessExit

Spec == Init /\ [][Next]_vars

(***************************************************************************)
(* parse_ping on its own: the thread stands before parse_ping with a       *)
(* report drawn from ParseShapes, and parses it.                           *)
(***************************************************************************)
\* Numerals with the numbers they denote.
NumberTable ==
    { [text |-> <<"1","5",".","3">>, value |-> [neg |-> FALSE, mant |-> 153, scale |-> 1]],
      [text |-> <<"7">>,             value |-> [neg |-> FALSE, mant |-> 7,   scale |-> 0]],
      [text |-> <<"0",".","5","0">>, value |-> [neg |-> FALSE, mant |-> 5,   scale |-> 1]],
      [text |-> <<"1","0",".","1">>, value |-> [neg |-> FALSE, mant |-> 101, scale |-> 1]],
      [text |-> <<"2","0",".","7">>, value |-> [neg |-> FALSE, mant |-> 207, scale |-> 1]],
      [text |-> <<"2",".","1">>,     value |-> [neg |-> FALSE, mant |-> 21,  scale |-> 1]] }

NumberOf(text) == (CHOOSE n \in NumberTable : n.text = text).value

\* "min/avg/max/stddev = 9.9/8.8/7.7/6.6 ms\n": an earlier summary line.
OldStats ==
    Marker \o StatsSep \o <<"9",".","9","/","8",".","8","/","7",".","7","/","6",".","6">>
      \o <<" ","m","s","\n">>

\* "min/avg/max/stddev = x\n": an earlier summary line without an average.
BadOldStats == Marker \o StatsSep \o <<"x","\n">>

\* What may precede the marker: nothing, "rtt ", an earlier summary line
\* (well-formed or not), a cut-off marker, and a line with its own " = "
\* and "/".
Prefixes ==
    { <<>>,
      <<"r","t","t"," ">>,
      OldStats,
      BadOldStats,
      <<"m","i","n","/","a","v","g">>,
      <<"x"," ","="," ","1","/","2"," ">> }

\* What may follow the statistics: nothing, " ms", " ms\n", " = 9/9".
Suffixes ==
    { <<>>,
      <<" ","m","s">>,
      <<" ","m","s","\n">>,
      <<" ","="," ","9","/","9">> }

MinTexts == { <<"1","0",".","1">>, <<"7">> }
AvgTexts == { <<"1","5",".","3">>, <<"7">>, <<"0",".","5","0">> }
MaxTexts == { <<"2","0",".","7">> }
DevTexts == { <<"2",".","1">>, <<"7">> }

\* Pieces of free-form reports.
Tokens ==
    { Marker, StatsSep, FieldSep, <<"1","5",".","3">>, <<"7">>, <<"x">>, <<" ">> }

\* Longest free-form report, in tokens.
MaxTokens == 3

RECURSIVE Flatten(_)
Flatten(toks) == IF toks = <<>> THEN <<>> ELSE Head(toks) \o Flatten(Tail(toks))

\* Reports without the marker: the summary line of Linux ping ("mdev"),
\* a report of total loss, the marker cut short, the marker in capitals,
\* statistics without their header.
NoMarkerTexts ==
    { <<"r","t","t"," ","m","i","n","/","a","v","g","/","m","a","x","/","m","d","e","v",
        " ","="," ","1","0",".","1","/","1","5",".","3","/","2","0",".","7","/","2",".","1",
        " ","m","s">>,
      <<"1","0","0","%"," ","l","o","s","s">>,
      <<"m","i","n","/","a","v","g","/","m","a","x","/","s","t","d","d","e",
        " ","="," ","7","/","7","/","7","/","7">>,
      <<"M","I","N","/","A","V","G","/","M","A","X","/","S","T","D","D","E","V",
        " ","="," ","7","/","7","/","7","/","7">>,
      <<" ","="," ","7","/","1","5",".","3","/","7","/","7">> }

\* What may follow the first field when the field at index 1 is no number,
\* and why: the field is missing (no "/" follows), empty, or not a numeral
\* (a letter, a blank before or after, a unit, a newline, two points).
MalformedTails ==
    { [tail |-> <<>>,                          why |-> "missing"],
      [tail |-> <<" ","m","s">>,               why |-> "missing"],
      [tail |-> <<"/">>,                       why |-> "empty"],
      [tail |-> <<"/","/","2","0",".","7">>,   why |-> "empty"],
      [tail |-> <<"/","x","/","7">>,           why |-> "invalid"],
      [tail |-> <<"/"," ","7","/","7">>,       why |-> "invalid"],
      [tail |-> <<"/","7"," ","/","7">>,       why |-> "invalid"],
      [tail |-> <<"/","7"," ","m","s">>,       why |-> "invalid"],
      [tail |-> <<"/","7","\n">>,              why |-> "invalid"],
      [tail |-> <<"/","1",".","2",".","3","/","7">>, why |-> "invalid"] }

\* pre ++ "min/avg/max/stddev" ++ " = " ++ a/b/c/d ++ suf; the same with a
\* tail in place of /b/c/d; a report without the marker; free-form tokens.
ParseShapes ==
    { [kind |-> "stats", pre |-> pre, a |-> a, b |-> b, c |-> c, d |-> d,
       suf |-> suf, toks |-> <<>>, why |-> "none"] :
        pre \in Prefixes, a \in MinTexts, b \in AvgTexts, c \in MaxTexts,
        d \in DevTexts, suf \in Suffixes }
    \cup
    { [kind |-> "malformed", pre |-> pre, a |-> a, b |-> <<>>, c |-> <<>>,
       d |-> <<>>, suf |-> m.tail, toks |-> <<>>, why |-> m.why] :
        pre \in Prefixes, a \in MinTexts, m \in MalformedTails }
    \cup
    { [kind |-> "nomarker", pre |-> text, a |-> <<>>, b |-> <<>>, c |-> <<>>,
       d |-> <<>>, suf |-> <<>>, toks |-> <<>>, why |-> "none"] :
        text \in NoMarkerTexts }
    \cup
    { [kind |-> "tokens", pre |-> <<>>, a |-> <<>>, b |-> <<>>, c |-> <<>>,
       d |-> <<>>, suf |-> <<>>, toks |-> toks, why |-> "none"] :
        toks \in UNION { [1..k -> Tokens] : k \in 0..MaxTokens } }

ShapeText(sh) ==
    CASE sh.kind = "stats" ->
           sh.pre \o Marker \o StatsSep \o sh.a \o FieldSep \o sh.b \o FieldSep
             \o sh.c \o FieldSep \o sh.d \o sh.suf
      [] sh.kind = "malformed" ->
           sh.pre \o Marker \o StatsSep \o sh.a \o sh.suf
      [] sh.kind = "nomarker" -> sh.pre
      [] OTHER -> Flatten(sh.toks)

ParseInit ==
    /\ iterations = 1
    /\ pc = "parse"
    /\ i = 0
    /\ shape \in ParseShapes
    /\ ping_output = ShapeText(shape)
    /\ ping_value = NoResult
    /\ chan = <<>>
    /\ txAlive = TRUE
    /\ rxAlive = TRUE
    /\ uiPc = "idle"
    /\ ping_data = <<>>
    /\ repaintRequested = TRUE
    /\ procAlive = TRUE
    /\ sent = <<>>
    /\ drained = <<>>
    /\ evicted = <<>>
    /\ probes = 1
    /\ sendFailed = FALSE
    /\ panicMsg = "none"
    /\ tickStart = NoTick(FALSE)

ParseNext == Parse

ParseSpec == ParseInit /\ [][ParseNext]_vars

\* The steps of the sampling thread and of the display thread.
SamplingThread == LoopTest \/ Probe \/ Parse \/ Send
DisplayThread == UpdateStart \/ DrainNext \/ TrimStep \/ Render

\* The scheduler runs both threads, every probe returns, eframe paints a
\* frame whenever a repaint is pending, and main returns once run_native
\* has.  Closing the window is up to the user.
FairSpec ==
    /\ Spec
    /\ WF_vars(SamplingThread)
    /\ WF_vars(DisplayThread)
    /\ WF_vars(ProcessExit)

(***************************************************************************)
(* Properties.                                                             *)
(***************************************************************************)
\* The last k elements of s (all of s when it has fewer).
LastK(s, k) == SubSeq(s, IF Len(s) > k THEN Len(s) - k + 1 ELSE 1, Len(s))

Last(s) == s[Len(s)]

\* C1: after every redraw tick (update has drained the channel and trimmed)
\* the buffer holds at most max_points PingResults.
C1_BoundedAfterTick == uiPc = "idle" => Len(ping_data) <= max_points

\* C2: once everything sent has been received and the tick has finished, the
\* buffer is exactly the last max_points PingResults sent, in sending order
\* (so its length is min(N, max_points)).
C2_LastKRetained ==
    (uiPc = "idle" /\ chan = <<>>) => ping_data = LastK(sent, max_points)

\* C3: the sampling thread never sends more than `iterations` PingResults,
\* and when its loop has ended without a panic and without a failed send
\* it has sent exactly `iterations` of them.
C3_SendsExactlyIterations ==
    /\ Len(sent) <= iterations
    /\ (pc = "done" /\ ~sendFailed) => Len(sent) = iterations

C3_Witness ==
    /\ pc = "done"
    /\ ~sendFailed
    /\ iterations >= 2
    /\ Len(sent) = iterations

\* C4: once the Receiver is dropped nothing more is sent; the send that
\* meets the dropped Receiver fails and ends the loop at once (pc = "done",
\* not "panicked"); after the failed send the thread sends nothing, probes
\* nothing and stays ended; and a thread standing at its send is never kept
\* waiting there.
C4_CleanStopOnDisconnect ==
    /\ [][ /\ (~rxAlive => sent' = sent)
           /\ (~rxAlive /\ pc = "send" /\ pc' # pc => sendFailed' /\ pc' = "done")
           /\ (sendFailed =>
                 sent' = sent /\ probes' = probes /\ pc = "done" /\ pc' = "done")
         ]_vars
    /\ [](pc = "send" /\ procAlive => ENABLED Send)

C4_Witness ==
    /\ sendFailed
    /\ pc = "done"
    /\ procAlive
    /\ i + 1 < iterations
    /\ Len(sent) = i

NeverWaits ==
    /\ (uiPc = "idle" /\ repaintRequested /\ procAlive) => ENABLED UpdateStart
    /\ (uiPc = "drain" /\ procAlive) => ENABLED DrainNext

\* At the end of the drain, everything that waited on the channel when the
\* tick started stands in the buffer, in order, right after what the buffer
\* held, and none of it is left on the channel.
DrainedAllWaiting ==
    LET n == Len(tickStart.data)
        w == Len(tickStart.chan)
    IN /\ Len(ping_data) >= n + w
       /\ SubSeq(ping_data, 1, n) = tickStart.data
       /\ SubSeq(ping_data, n + 1, n + w) = tickStart.chan
       /\ \A k \in 1..w : \A j \in 1..Len(chan) : chan[j] # tickStart.chan[k]

\* C6 as claimed: a tick that starts with an empty channel or with the
\* Sender gone ends its drain with the buffer unchanged; any other tick
\* drains everything that was waiting.
C6_EmptyOrSenderGone ==
    /\ NeverWaits
    /\ uiPc = "trim" =>
         IF tickStart.chan = <<>> \/ ~tickStart.tx
         THEN ping_data = tickStart.data
         ELSE DrainedAllWaiting

\* C6 as amended: update never waits for the channel; a tick that starts
\* with an empty channel, the Sender alive or gone, ends its drain with the
\* buffer unchanged; any other tick, also one that starts with the Sender
\* gone, ends its drain with everything that was waiting appended in order
\* and none of it left on the channel.
C6_NonBlockingFullDrain ==
    /\ NeverWaits
    /\ uiPc = "trim" =>
         /\ tickStart.chan = <<>> => ping_data = tickStart.data
         /\ DrainedAllWaiting

C6_Witness ==
    /\ uiPc = "trim"
    /\ ~tickStart.tx
    /\ Len(tickStart.chan) >= 2
    /\ ping_data = tickStart.data \o tickStart.chan
    /\ chan = <<>>

\* C7: the buffer holds PingResults that were sent, and any two of them
\* stand in the buffer in the order in which they were sent.
C7_ArrivalOrder ==
    /\ \A k \in 1..Len(ping_data) :
         \E q \in 1..Len(sent) : sent[q] = ping_data[k]
    /\ \A j, k \in 1..Len(ping_data) :
         j < k =>
           \E q, r \in 1..Len(sent) :
             q < r /\ sent[q] = ping_data[j] /\ sent[r] = ping_data[k]

C7_Witness ==
    /\ Len(ping_data) >= 2
    /\ evicted # <<>>
    /\ chan # <<>>

\* C8: after the trim of every tick, once anything has been received, the
\* buffer ends with the PingResult received last; and whenever the buffer
\* shrinks it loses exactly its front element and keeps its last one.
C8_NewestRetained ==
    /\ []((uiPc \in {"render", "idle"} /\ drained # <<>>) =>
            (ping_data # <<>> /\ Last(ping_data) = Last(drained)))
    /\ [][(uiPc' # "closed" /\ Len(ping_data') < Len(ping_data)) =>
            /\ ping_data' = Tail(ping_data)
            /\ ping_data' # <<>>
            /\ Last(ping_data') = Last(ping_data)]_vars

C8_Witness ==
    /\ uiPc = "idle"
    /\ evicted # <<>>
    /\ Len(drained) > max_points
    /\ Last(ping_data) = Last(drained)

\* C9: the step that ends a tick always leaves a repaint requested, and
\* ticks keep coming for as long as the window is not closed.
C9_AlwaysRepaints ==
    /\ [][(uiPc = "render" /\ uiPc' = "idle") => repaintRequested']_vars
    /\ ([]<>(uiPc = "render") \/ <>(uiPc = "closed"))

C9_Witness ==
    /\ uiPc = "idle"
    /\ tickStart.quiet
    /\ repaintRequested
    /\ pc = "done"
    /\ chan = <<>>

\* C10: for a report pre ++ "min/avg/max/stddev" ++ " = a/b/c/d" ++ suf,
\* parse_ping succeeds and the PingResult's average is the number b denotes,
\* whatever pre is.
C10_ParsesAverage ==
    (shape.kind = "stats" /\ pc # "parse") =>
        /\ pc = "send"
        /\ ping_value.average = NumberOf(shape.b)

C10_Witness ==
    /\ shape.kind = "stats"
    /\ shape.pre = OldStats
    /\ shape.b = <<"1","5",".","3">>
    /\ pc = "send"
    /\ ping_value.average = [neg |-> FALSE, mant |-> 153, scale |-> 1]

\* The report was put together without the marker.
HasNoMarker ==
    \/ shape.kind = "nomarker"
    \/ shape.kind = "tokens" /\ \A k \in 1..Len(shape.toks) : shape.toks[k] # Marker

\* C11: a report that does not contain "min/avg/max/stddev" makes parse_ping
\* fail at the search for the marker (panic "Sequence not found"); no
\* PingResult is produced and none is sent.
C11_NoMarkerFails ==
    (HasNoMarker /\ pc # "parse") =>
        /\ pc = "panicked"
        /\ panicMsg = "Sequence not found"
        /\ ping_value = NoResult
        /\ sent = <<>> /\ chan = <<>>

\* A report with " = " and "/" and two numbers, but no marker, was parsed.
C11_Witness ==
    /\ shape.kind = "tokens"
    /\ shape.toks = <<StatsSep, <<"7">>, FieldSep>>
    /\ pc = "panicked"


\* C12: a report with the marker and " = " whose field at index 1 of the
\* statistics, split on "/", is missing, empty or not a number makes
\* parse_ping fail at the conversion of the average (panic "Error parsing
\* average value"); no PingResult is produced and none is sent.
C12_MalformedNumberFails ==
    (shape.kind = "malformed" /\ pc # "parse") =>
        /\ pc = "panicked"
        /\ panicMsg = "Error parsing average value"
        /\ ping_value = NoResult
        /\ sent = <<>> /\ chan = <<>>


\* The positions of the marker among the tokens of a free-form report.
MarkerTokens == { k \in 1..Len(shape.toks) : shape.toks[k] = Marker }

\* The report holds the marker more than once.
SeveralMarkers ==
    \/ shape.kind \in {"stats", "malformed"} /\ shape.pre \in {OldStats, BadOldStats}
    \/ shape.kind = "tokens" /\ Cardinality(MarkerTokens) >= 2

\* The report from its last marker on, put together from the shape.
FromLastMarker ==
    IF shape.kind = "tokens"
    THEN Flatten(SubSeq(shape.toks, SetMax(MarkerTokens), Len(shape.toks)))
    ELSE ShapeText([shape EXCEPT !.pre = <<>>])

\* C13: when the marker occurs several times, parse_ping does to the report
\* what it does to the text that starts at the last occurrence: the same
\* average on success, the same panic on failure; the statistics of an
\* earlier summary line (average 8.8) are never what comes out.
C13_LastMarkerOnly ==
    (SeveralMarkers /\ pc # "parse") =>
        LET r == parse_ping(FromLastMarker)
        IN IF r.ok
           THEN /\ pc = "send"
                /\ panicMsg = "none"
                /\ ping_value.average = r.average
                /\ ping_value.average # [neg |-> FALSE, mant |-> 88, scale |-> 1]
           ELSE /\ pc = "panicked"
                /\ panicMsg = r.panic
                /\ ping_value = NoResult

\* A well-formed summary line came first, the last marker has no average:
\* the parse failed.
C13_Witness ==
    /\ shape.kind = "malformed"
    /\ shape.pre = OldStats
    /\ shape.why = "missing"
    /\ pc = "panicked"
    /\ panicMsg = "index out of bounds"


\* C14: the sampling thread works strictly in sequence.  At most one probe
\* has a result that is not sent yet; a probe is invoked only when the
\* PingResult of every earlier probe has been sent (or a send has failed);
\* the PingResults are sent one at a time in the order of their probes.
C14_StrictlySequential ==
    /\ [](probes <= Len(sent) + 1)
    /\ [](\A k \in 1..Len(sent) : sent[k].datetime_recv = k)
    /\ [][ /\ (probes' # probes =>
                 /\ probes' = probes + 1
                 /\ pc = "probe"
                 /\ Len(sent) = probes \/ sendFailed)
           /\ (sent' # sent =>
                 /\ pc = "send"
                 /\ sent' = Append(sent, ping_value)
                 /\ ping_value.datetime_recv = probes) ]_vars

\* The fourth probe has returned; the PingResults of the first three probes
\* have been sent.
C14_Witness ==
    /\ probes = 4
    /\ pc = "parse"
    /\ Len(sent) = 3


\* C15: the sampling thread never touches ping_data.  A step of the thread
\* leaves everything PingApp owns unchanged, a step of update leaves
\* everything the thread owns unchanged, so that the channel is the only
\* state both write; ping_data changes only by a try_recv of update that
\* pushes the PingResult it received, by the remove(0) of the trim, and by
\* the drop of PingApp when the window closes.
C15_BufferOwnedByDisplay ==
    [][ /\ (threadVars' # threadVars \/ txAlive' # txAlive =>
               UNCHANGED <<uiVars, rxAlive>>)
        /\ (uiVars' # uiVars \/ rxAlive' # rxAlive =>
               UNCHANGED <<threadVars, txAlive>>)
        /\ (ping_data' # ping_data =>
               \/ /\ uiPc \in {"idle", "drain"}
                  /\ uiPc' = "drain"
                  /\ chan # <<>>
                  /\ ping_data' = Append(ping_data, Head(chan))
                  /\ chan' = Tail(chan)
               \/ /\ uiPc = "trim"
                  /\ uiPc' = "render"
                  /\ ping_data' = Tail(ping_data)
                  /\ UNCHANGED chan
               \/ /\ uiPc = "idle"
                  /\ uiPc' = "closed") ]_vars

\* The thread has sent its third PingResult while update is in its drain
\* with PingResults in ping_data and in the channel.
C15_Witness ==
    /\ pc = "loop"
    /\ Len(sent) = 3
    /\ uiPc = "drain"
    /\ ping_data # <<>>
    /\ Len(chan) >= 2


\* C16 as claimed: the sampling thread comes to its end having completed
\* all its iterations or having had a send fail (unless the process exits
\* first), invokes at most `iterations` probes, and never waits in send.
C16_StopsDoneOrSendFailed ==
    /\ <>((pc = "done" /\ (i = iterations \/ sendFailed)) \/ ~procAlive)
    /\ [](probes <= iterations)
    /\ [](pc = "send" /\ procAlive => ENABLED Send)

\* C16: the sampling thread comes to its end (unless the process exits
\* first): by completing all its iterations, by a failed send, or by the
\* panic of a failed probe or parse.  It invokes at most `iterations`
\* probes, leaves the loop normally only with i = iterations or after a
\* failed send, and never waits in send.
C16_Terminates ==
    /\ <>(pc \in {"done", "panicked"} \/ ~procAlive)
    /\ [](pc = "done" => i = iterations \/ sendFailed)
    /\ [](pc = "panicked" => panicMsg # "none" /\ ~sendFailed)
    /\ [](i <= iterations /\ probes <= iterations)
    /\ [](pc = "send" /\ procAlive => ENABLED Send)

\* The thread has completed four iterations before update ran once: all
\* four PingResults wait in the channel.
C16_Witness ==
    /\ pc = "done"
    /\ i = 4
    /\ Len(chan) = 4
    /\ drained = <<>>
    /\ uiPc = "idle"


\* C17 as claimed: in every reachable state the PingResults sent are, in
\* the order of sending, those evicted, then those in ping_data, then those
\* waiting in the channel: each is in exactly one place, none is lost.
C17_Conservation ==
    sent = evicted \o ping_data \o chan

\* C17: as long as the Receiver lives (the window has not been closed), the
\* PingResults sent are, in the order of sending, those evicted, then those
\* in ping_data, then those waiting in the channel: each is in exactly one
\* place, none is duplicated or lost, and ping_data is a contiguous run of
\* what was sent.  What has been received is what was evicted or is held.
C17_ConservationWhileOpen ==
    rxAlive =>
        /\ sent = evicted \o ping_data \o chan
        /\ drained = evicted \o ping_data
        /\ Len(sent) = Len(chan) + Len(ping_data) + Len(evicted)
        /\ \A j, k \in 1..Len(sent) : j # k => sent[j] # sent[k]

\* One PingResult evicted, max_points in ping_data, one in the channel.
C17_Witness ==
    /\ rxAlive
    /\ Len(sent) = max_points + 2
    /\ Len(evicted) = 1
    /\ Len(ping_data) = max_points
    /\ Len(chan) = 1


\* C18: as long as the window is not closed, every PingResult sent is
\* eventually pushed onto ping_data by update, and a channel that still holds
\* PingResults after the Sender was dropped is eventually emptied into
\* ping_data.  With the Sender gone update still never waits: each of its
\* steps is enabled, and a try_recv that finds the channel empty leaves
\* ping_data as it is and goes on to the trim.
C18_EventuallyBuffered ==
    /\ \A k \in 1..MaxIterations :
          (Len(sent) >= k) ~> (Len(drained) >= k \/ uiPc = "closed")
    /\ (~txAlive /\ chan # <<>>) ~> (chan = <<>>)
    /\ [](~txAlive /\ procAlive =>
            /\ (uiPc = "idle" /\ repaintRequested => ENABLED UpdateStart)
            /\ (uiPc = "drain" => ENABLED DrainNext)
            /\ (uiPc = "trim" => ENABLED TrimStep)
            /\ (uiPc = "render" => ENABLED Render))
    /\ [][ (~txAlive /\ chan = <<>> /\ uiPc \in {"idle", "drain"}
              /\ uiPc' \notin {uiPc, "closed"}) =>
             (uiPc' = "trim" /\ ping_data' = ping_data) ]_vars

\* update is in its drain and has pushed a PingResult that it found in the
\* channel of a Sender already dropped.
C18_Witness ==
    /\ uiPc = "drain"
    /\ tickStart.running
    /\ ~tickStart.tx
    /\ Len(drained) > tickStart.received
    /\ Last(ping_data) = Last(sent)


=============================================================================
